---- MODULE Spec2Model ----
(***************************************************************************)
(* Weft runtime actor kernel (runtime-ts/src/index.ts): capability-gated   *)
(* effect facade, bounded mailbox with sequential drain, actor registry    *)
(* and crash supervision with a time-windowed restart budget.              *)
(*                                                                         *)
(* JavaScript runs each callback to its next await without preemption, so  *)
(* every action below is one such run: from the event that resumes the     *)
(* code (a host call, a settled promise, a fired timer) to the next        *)
(* suspension point.                                                       *)
(***************************************************************************)
EXTENDS Integers, Sequences, FiniteSets, TLC

\* ---------------------------------------------------------------- bounds
MaxLive == 2        \* LiveActor records created in one run
MaxSends == 4       \* send attempts in one run (message sequence numbers)
MaxTime == 5        \* last value of the wall clock
DrainSlots == 2     \* flush() activations that can exist side by side
MaxCalls == 2       \* facade calls in one run of the facade specification
MaxEffLen == 2      \* length of a token's effects array

\* ------------------------------------------------------ policy and sizes
\* DEFAULT_POLICY = { maxRestarts: 3, windowMs: 60_000, backoffMs: 250 };
\* the durations are scaled to clock ticks, the mailbox to a few messages.
MaxRestarts == 3
WindowMs == 3
BackoffMs == 1
MailboxMax == 2

Names == {"A", "B"}
Lives == 1..MaxLive
Slots == 1..DrainSlots
NoLive == 0

\* ------------------------------------------------------------ capabilities
Effect == {"Db", "Net", "Now", "Kms", "Serial"}
Methods == {"db.query", "net.get", "now.now", "kms.decrypt", "serial.readLine"}

VARIABLES
  now,        \* Date.now()
  actors,     \* ActorSystem.actors: name -> LiveActor (NoLive: no entry)
  nlive,      \* LiveActor records created so far
  lname,      \* live.actor.name
  hasInit,    \* live.actor.init is defined
  hasHook,    \* live.actor.onCrash is defined
  q,          \* live.mbox.q
  busy,       \* live.mbox.busy
  crashes,    \* live.crashes
  drain,      \* the flush() activations of live.mbox and where each is suspended
  itask,      \* the init promise started by spawn and its crash handling
  nsent,      \* send attempts so far
  accepted,   \* history: messages send() enqueued, per LiveActor
  delivered,  \* history: messages onMessage was invoked with, per LiveActor
  crashLog,   \* history: times of all crashes handled with restart
  reruns,     \* history: init re-runs by handleCrash (crash time, re-run time), where logged
  resumes,    \* history: number of crashes handled with resume
  stopped,    \* history: the LiveActor's registry entry was deleted
  lastErr,    \* what the last host call threw to its caller
  unhandled,  \* history: origins of promise rejections nobody handles
  cap,        \* the token a facade is bound to
  call,       \* the last call through the facade bound to cap and its outcome
  lowCalls,   \* invocations of each low-level implementation
  issued,     \* history: cap as issueToken returned it
  minted      \* the token actor code issued through ctx.system for a child it spawned

kvars == <<now, actors, nlive, lname, hasInit, hasHook, q, busy, crashes, drain,
           itask, nsent, accepted, delivered, crashLog, reruns, resumes, stopped,
           lastErr, unhandled>>
cvars == <<cap, call, lowCalls>>
tvars == <<issued, minted>>
vars == <<now, actors, nlive, lname, hasInit, hasHook, q, busy, crashes, drain,
          itask, nsent, accepted, delivered, crashLog, reruns, resumes, stopped,
          lastErr, unhandled, cap, call, lowCalls, issued, minted>>

\* -------------------------------------------------------------- facade
\* const hasEffect = (cap, e) => cap.effects.includes(e)
hasEffectFirstOnly(c, e) == c.effects # <<>> /\ c.effects[1] = e
hasEffect(c, e) == \E i \in DOMAIN c.effects : c.effects[i] = e

\* the effect each facade method passes to assertEffect
AssertedEffectAllDb(m) == "Db"
AssertedEffect(m) ==
  CASE m = "db.query" -> "Db"
    [] m = "net.get" -> "Net"
    [] m = "now.now" -> "Now"
    [] m = "kms.decrypt" -> "Kms"
    [] m = "serial.readLine" -> "Serial"

\* the low-level module each facade method delegates to
LowImpl(m) ==
  CASE m = "db.query" -> "Db"
    [] m = "net.get" -> "Net"
    [] m = "now.now" -> "Now"
    [] m = "kms.decrypt" -> "Kms"
    [] m = "serial.readLine" -> "Serial"

\* new Error(`Effect ${e} not granted for module ${cap.module}`)
EffectError(c, e) == [kind |-> "EffectNotGranted", effect |-> e, module |-> c.module]
NoError == [kind |-> "none", effect |-> "none", module |-> "none"]

\* assertEffect(cap, e): the error it throws, NoError when it returns
assertEffect(c, e) == IF ~hasEffect(c, e) THEN EffectError(c, e) ELSE NoError

NoCall == [method |-> "none", err |-> NoError, lowInvoked |-> FALSE,
           args |-> <<>>, lowArgs |-> <<>>, result |-> "none"]

\* argument values, and the argument lists a caller can pass to each method:
\* query(sql, params = []), get(url), now(), decrypt(c), readLine()
Vals == {"x", "y"}
ArgLists(m) ==
  CASE m = "db.query" -> {<<a>> : a \in Vals} \cup {<<a, "p">> : a \in Vals}
    [] m \in {"net.get", "kms.decrypt"} -> {<<a>> : a \in Vals}
    [] OTHER -> {<<>>}

\* the arguments the method hands to the low-level implementation
ForwardedFirstOnly(m, args) == IF args = <<>> THEN <<>> ELSE <<args[1]>>
Forwarded(m, args) ==
  CASE m = "db.query" -> <<args[1], IF Len(args) < 2 THEN "[]" ELSE args[2]>>
    [] m \in {"net.get", "kms.decrypt"} -> <<args[1]>>
    [] OTHER -> <<>>

\* what a low-level implementation can do: return a value or fail
LowResults == {"value", "error"}

\* one call of a method of the facade bound to token c: assertEffect, then the
\* low-level call, whose outcome is the call's outcome
CallOutcome(c, m, args, r) ==
  LET err == assertEffect(c, AssertedEffect(m)) IN
    IF err.kind # "none"
    THEN [method |-> m, err |-> err, lowInvoked |-> FALSE,
          args |-> args, lowArgs |-> <<>>, result |-> "none"]
    ELSE [method |-> m, err |-> NoError, lowInvoked |-> TRUE,
          args |-> args, lowArgs |-> Forwarded(m, args), result |-> r]

\* one call of a method of bindCaps(cap) with arguments args, the low-level
\* implementation answering r if it is reached
FacadeCallWith(m, args, r) ==
  /\ lowCalls[LowImpl(m)] < MaxCalls
  /\ call' = CallOutcome(cap, m, args, r)
  /\ lowCalls' = IF call'.lowInvoked
                 THEN [lowCalls EXCEPT ![LowImpl(m)] = @ + 1]
                 ELSE lowCalls
  /\ UNCHANGED <<cap>>
  /\ UNCHANGED tvars
  /\ UNCHANGED kvars

FacadeCall(m) == \E args \in ArgLists(m), r \in LowResults : FacadeCallWith(m, args, r)

\* ------------------------------------------------------------ mailbox
\* send: if (this.q.length >= this.max) throw new Error("mailbox overflow")
MailboxFullLate(l) == Len(q[l]) > MailboxMax
MailboxFull(l) == Len(q[l]) >= MailboxMax

\* flush: if (this.busy) return
FlushReturnsEarlyNever(l) == FALSE
FlushReturnsEarly(l) == busy[l]

\* const m = this.q.shift()!
NextMsgPop(qq) == qq[Len(qq)]
NextMsg(qq) == Head(qq)
RestNone(qq) == qq
Rest(qq) == Tail(qq)

Idle == [pc |-> "idle", msg |-> 0, at |-> 0, wake |-> 0]
FreeSlots(l) == {s \in Slots : drain[l][s].pc = "idle"}
InFlight(l) == {s \in Slots : drain[l][s].pc = "onMessage"}
\* onMessage invocations that have settled
Finished(l) == Len(delivered[l]) - Cardinality(InFlight(l))

\* flush's loop in activation s, entered with queue qq: shift the head and
\* call handle(m) = dispatch(live, m), which invokes onMessage; with an empty
\* queue leave the loop through finally { this.busy = false }
DrainLoop(l, s, qq) ==
  IF qq # <<>>
  THEN /\ q' = [q EXCEPT ![l] = Rest(qq)]
       /\ drain' = [drain EXCEPT ![l][s] = [pc |-> "onMessage", msg |-> NextMsg(qq), at |-> 0, wake |-> 0]]
       /\ delivered' = [delivered EXCEPT ![l] = Append(@, NextMsg(qq))]
       /\ busy' = [busy EXCEPT ![l] = TRUE]
  ELSE /\ q' = [q EXCEPT ![l] = qq]
       /\ drain' = [drain EXCEPT ![l][s] = Idle]
       /\ delivered' = delivered
       /\ busy' = [busy EXCEPT ![l] = FALSE]

\* await this.handle(m) rejected: the loop is left through finally and the
\* promise of flush(), which nobody holds, rejects
DrainAbort(l, s) ==
  /\ q' = q
  /\ drain' = [drain EXCEPT ![l][s] = Idle]
  /\ delivered' = delivered
  /\ busy' = [busy EXCEPT ![l] = FALSE]

\* ------------------------------------------------------------ supervision
\* live.crashes.filter(ts => now - ts <= this.policy.windowMs)
InWindowAlways(t, ts) == TRUE
InWindowExclusive(t, ts) == t - ts < WindowMs
InWindow(t, ts) == t - ts <= WindowMs
Prune(cr, t) == SelectSeq(cr, LAMBDA ts : InWindow(t, ts))

\* if (live.crashes.length > this.policy.maxRestarts)
OverBudgetEager(cr) == Len(cr) >= MaxRestarts
OverBudget(cr) == Len(cr) > MaxRestarts

\* what live.actor.onCrash?.(live.ctx, err) can do: return a disposition,
\* return nothing (no hook, or a hook returning undefined), or throw
HookOutcomes(l) == IF hasHook[l] THEN {"resume", "restart", "stop", "throw"}
                   ELSE {"undefined"}

\* const action = ... ?? "restart"
DispositionAllRestart(o) == "restart"
DispositionStopRestarts(o) == IF o \in {"undefined", "stop"} THEN "restart" ELSE o
DispositionNoResume(o) == IF o \in {"undefined", "resume"} THEN "restart" ELSE o
Disposition(o) == IF o = "undefined" THEN "restart" ELSE o

\* stop(name) { this.actors.delete(name) }
DeletedAll(n) == [m \in Names |-> NoLive]
Deleted(n) == [actors EXCEPT ![n] = NoLive]
MarkStopped(n) == IF actors[n] = NoLive THEN stopped
                  ELSE [stopped EXCEPT ![actors[n]] = TRUE]

\* handleCrash(live, err) up to its first await, with hook outcome o:
\* k is how it leaves ("return", "reject", or "backoff": suspended on the timer)
handleCrash(l, o) ==
  LET d == Disposition(o)
      cr == Append(Prune(crashes[l], now), now)
  IN  CASE d = "throw" -> [k |-> "reject", crashes |-> crashes[l], stop |-> FALSE, restart |-> FALSE, resumed |-> d = "resume"]
        [] d = "resume" -> [k |-> "return", crashes |-> crashes[l], stop |-> FALSE, restart |-> FALSE, resumed |-> d = "resume"]
        [] d = "stop" -> [k |-> "return", crashes |-> crashes[l], stop |-> TRUE, restart |-> FALSE, resumed |-> d = "resume"]
        [] OTHER -> IF OverBudget(cr)
                    THEN [k |-> "return", crashes |-> cr, stop |-> TRUE, restart |-> TRUE, resumed |-> FALSE]
                    ELSE [k |-> "backoff", crashes |-> cr, stop |-> FALSE, restart |-> TRUE, resumed |-> FALSE]

\* the kernel state handleCrash writes before it suspends or returns
CrashEffects(l, r) ==
  /\ crashes' = [crashes EXCEPT ![l] = r.crashes]
  /\ resumes' = IF r.resumed THEN [resumes EXCEPT ![l] = @ + 1] ELSE resumes
  /\ crashLog' = IF r.restart THEN [crashLog EXCEPT ![l] = Append(@, now)] ELSE crashLog
  /\ actors' = IF r.stop THEN Deleted(lname[l]) ELSE actors
  /\ stopped' = IF r.stop THEN MarkStopped(lname[l]) ELSE stopped
  /\ unhandled' = IF r.k = "reject" THEN unhandled \cup {"onCrash"} ELSE unhandled

\* setTimeout(r, this.policy.backoffMs)
TimerDueNow(t) == t
TimerDue(t) == t + BackoffMs

\* ------------------------------------------------------------ host calls
\* if (this.actors.has(actor.name)) throw new Error(`actor ... already exists`)
NameTakenNever(n) == FALSE
NameTaken(n) == actors[n] # NoLive

\* spawn(actor, cap) for an actor named n with or without init and onCrash;
\* sync: init throws before it returns a promise
SpawnKernel(n, i, h, sync) ==
  /\ sync => i
  /\ IF NameTaken(n)
     THEN /\ lastErr' = "ActorExists"
          /\ UNCHANGED <<actors, nlive, lname, hasInit, hasHook, itask>>
     ELSE /\ nlive < MaxLive
          /\ nlive' = nlive + 1
          /\ actors' = [actors EXCEPT ![n] = nlive + 1]
          /\ lname' = [lname EXCEPT ![nlive + 1] = n]
          /\ hasInit' = [hasInit EXCEPT ![nlive + 1] = i]
          /\ hasHook' = [hasHook EXCEPT ![nlive + 1] = h]
          /\ itask' = [itask EXCEPT ![nlive + 1] =
                         [pc |-> IF sync THEN "threw" ELSE IF i THEN "init" ELSE "done",
                          at |-> 0, wake |-> 0]]
          /\ lastErr' = IF sync THEN "InitThrew" ELSE "none"
  /\ UNCHANGED <<now, q, busy, crashes, drain, nsent, accepted, delivered, crashLog,
                 reruns, resumes, stopped, unhandled>>

\* spawn called by the host
Spawn(n, i, h, sync) ==
  /\ SpawnKernel(n, i, h, sync)
  /\ UNCHANGED cvars
  /\ UNCHANGED tvars

\* the handle spawn returned for l exists
HasHandle(l) == l <= nlive /\ itask[l].pc # "threw"

\* handle.send(msg) = live.mbox.send(msg), msg carrying the next sequence number
Send(l) ==
  /\ HasHandle(l)
  /\ nsent < MaxSends
  /\ nsent' = nsent + 1
  /\ IF MailboxFull(l)
     THEN /\ lastErr' = "MailboxOverflow"
          /\ UNCHANGED <<q, busy, drain, accepted, delivered>>
     ELSE /\ lastErr' = "none"
          /\ accepted' = [accepted EXCEPT ![l] = Append(@, nsent + 1)]
          /\ IF FlushReturnsEarly(l) \/ FreeSlots(l) = {}
             THEN /\ q' = [q EXCEPT ![l] = Append(@, nsent + 1)]
                  /\ UNCHANGED <<busy, drain, delivered>>
             ELSE LET s == CHOOSE x \in FreeSlots(l) : \A y \in FreeSlots(l) : x <= y
                  IN  DrainLoop(l, s, Append(q[l], nsent + 1))
  /\ UNCHANGED <<now, actors, nlive, lname, hasInit, hasHook, crashes, itask, crashLog,
                 reruns, resumes, stopped, unhandled>>
  /\ UNCHANGED cvars
  /\ UNCHANGED tvars

\* system.stop(name), also reached through handle.stop()
Stop(n) ==
  /\ actors' = Deleted(n)
  /\ stopped' = MarkStopped(n)
  /\ lastErr' = "none"
  /\ UNCHANGED <<now, nlive, lname, hasInit, hasHook, q, busy, crashes, drain, itask,
                 nsent, accepted, delivered, crashLog, reruns, resumes, unhandled>>
  /\ UNCHANGED cvars
  /\ UNCHANGED tvars

\* the wall clock advances
Tick ==
  /\ now < MaxTime
  /\ now' = now + 1
  /\ UNCHANGED <<actors, nlive, lname, hasInit, hasHook, q, busy, crashes, drain, itask,
                 nsent, accepted, delivered, crashLog, reruns, resumes, stopped, lastErr, unhandled>>
  /\ UNCHANGED cvars
  /\ UNCHANGED tvars

\* ------------------------------------------------------- dispatch and drain
\* onMessage resolved: dispatch returns and flush takes the next message
MsgOk(l, s) ==
  /\ drain[l][s].pc = "onMessage"
  /\ DrainLoop(l, s, q[l])
  /\ UNCHANGED <<now, actors, nlive, lname, hasInit, hasHook, crashes, itask, nsent,
                 accepted, crashLog, reruns, resumes, stopped, lastErr, unhandled>>
  /\ UNCHANGED cvars
  /\ UNCHANGED tvars

\* onMessage threw or rejected: dispatch awaits handleCrash(live, e)
MsgFail(l, s, o) ==
  /\ drain[l][s].pc = "onMessage"
  /\ o \in HookOutcomes(l)
  /\ LET r == handleCrash(l, o) IN
       /\ CrashEffects(l, r)
       /\ CASE r.k = "return" -> DrainLoop(l, s, q[l])
            [] r.k = "reject" -> DrainAbort(l, s)
            [] OTHER -> /\ drain' = [drain EXCEPT ![l][s] =
                                       [pc |-> "backoff", msg |-> @.msg, at |-> now, wake |-> TimerDue(now)]]
                        /\ UNCHANGED <<q, busy, delivered>>
  /\ UNCHANGED <<now, nlive, lname, hasInit, hasHook, itask, nsent, accepted, lastErr, reruns>>
  /\ UNCHANGED cvars
  /\ UNCHANGED tvars

\* the backoff timer fired inside dispatch's handleCrash:
\* if (live.actor.init) await Promise.resolve(live.actor.init(live.ctx))
BackoffDoneStep(l, s) ==
  /\ drain[l][s].pc = "backoff"
  /\ now >= drain[l][s].wake
  /\ IF hasInit[l]
     THEN /\ drain' = [drain EXCEPT ![l][s] = [pc |-> "reinit", msg |-> @.msg, at |-> @.at, wake |-> 0]]
          /\ UNCHANGED <<q, busy, delivered>>
     ELSE DrainLoop(l, s, q[l])
  /\ UNCHANGED <<now, actors, nlive, lname, hasInit, hasHook, crashes, itask, nsent,
                 accepted, crashLog, resumes, stopped, lastErr, unhandled>>
  /\ UNCHANGED cvars
  /\ UNCHANGED tvars

BackoffDone(l, s) == BackoffDoneStep(l, s) /\ UNCHANGED reruns

\* the same step with the init re-run entered in the log
BackoffDoneLogged(l, s) ==
  /\ BackoffDoneStep(l, s)
  /\ reruns' = IF hasInit[l]
                THEN [reruns EXCEPT ![l] = Append(@, [at |-> drain[l][s].at, t |-> now])]
                ELSE reruns

\* the re-run init resolved: handleCrash and dispatch return
ReinitOk(l, s) ==
  /\ drain[l][s].pc = "reinit"
  /\ DrainLoop(l, s, q[l])
  /\ UNCHANGED <<now, actors, nlive, lname, hasInit, hasHook, crashes, itask, nsent,
                 accepted, crashLog, reruns, resumes, stopped, lastErr, unhandled>>
  /\ UNCHANGED cvars
  /\ UNCHANGED tvars

\* the re-run init threw or rejected: handleCrash, dispatch and flush reject
ReinitFail(l, s) ==
  /\ drain[l][s].pc = "reinit"
  /\ DrainAbort(l, s)
  /\ unhandled' = unhandled \cup {"reinit"}
  /\ UNCHANGED <<now, actors, nlive, lname, hasInit, hasHook, crashes, itask, nsent,
                 accepted, crashLog, reruns, resumes, stopped, lastErr>>
  /\ UNCHANGED cvars
  /\ UNCHANGED tvars

\* -------------------------------------------------- the init spawn started
\* Promise.resolve(actor.init(ctx)) resolved
InitOk(l) ==
  /\ itask[l].pc = "init"
  /\ itask' = [itask EXCEPT ![l] = [pc |-> "done", at |-> 0, wake |-> 0]]
  /\ UNCHANGED <<now, actors, nlive, lname, hasInit, hasHook, q, busy, crashes, drain,
                 nsent, accepted, delivered, crashLog, reruns, resumes, stopped, lastErr, unhandled>>
  /\ UNCHANGED cvars
  /\ UNCHANGED tvars

\* it rejected: .catch((e) => this.handleCrash(live, e))
InitFail(l, o) ==
  /\ itask[l].pc = "init"
  /\ o \in HookOutcomes(l)
  /\ LET r == handleCrash(l, o) IN
       /\ CrashEffects(l, r)
       /\ itask' = [itask EXCEPT ![l] =
                      IF r.k = "backoff" THEN [pc |-> "backoff", at |-> now, wake |-> TimerDue(now)]
                      ELSE [pc |-> "done", at |-> 0, wake |-> 0]]
  /\ UNCHANGED <<now, nlive, lname, hasInit, hasHook, q, busy, drain, nsent, accepted,
                 delivered, lastErr, reruns>>
  /\ UNCHANGED cvars
  /\ UNCHANGED tvars

\* the backoff timer fired inside that handleCrash: init is invoked again
InitBackoffDoneStep(l) ==
  /\ itask[l].pc = "backoff"
  /\ now >= itask[l].wake
  /\ itask' = [itask EXCEPT ![l] = [pc |-> "reinit", at |-> @.at, wake |-> 0]]
  /\ UNCHANGED <<now, actors, nlive, lname, hasInit, hasHook, q, busy, crashes, drain,
                 nsent, accepted, delivered, crashLog, resumes, stopped, lastErr, unhandled>>
  /\ UNCHANGED cvars
  /\ UNCHANGED tvars

InitBackoffDone(l) == InitBackoffDoneStep(l) /\ UNCHANGED reruns

\* the same step with the init re-run entered in the log
InitBackoffDoneLogged(l) ==
  /\ InitBackoffDoneStep(l)
  /\ reruns' = [reruns EXCEPT ![l] = Append(@, [at |-> itask[l].at, t |-> now])]

\* that init resolved
InitReinitOk(l) ==
  /\ itask[l].pc = "reinit"
  /\ itask' = [itask EXCEPT ![l] = [pc |-> "done", at |-> 0, wake |-> 0]]
  /\ UNCHANGED <<now, actors, nlive, lname, hasInit, hasHook, q, busy, crashes, drain,
                 nsent, accepted, delivered, crashLog, reruns, resumes, stopped, lastErr, unhandled>>
  /\ UNCHANGED cvars
  /\ UNCHANGED tvars

\* that init rejected: the promise .catch returned rejects and nobody holds it
InitReinitFail(l) ==
  /\ itask[l].pc = "reinit"
  /\ itask' = [itask EXCEPT ![l] = [pc |-> "done", at |-> 0, wake |-> 0]]
  /\ unhandled' = unhandled \cup {"reinit"}
  /\ UNCHANGED <<now, actors, nlive, lname, hasInit, hasHook, q, busy, crashes, drain,
                 nsent, accepted, delivered, crashLog, reruns, resumes, stopped, lastErr>>
  /\ UNCHANGED cvars
  /\ UNCHANGED tvars

\* ------------------------------------------------------------ specifications
NoTask == [pc |-> "done", at |-> 0, wake |-> 0]

KernelInit ==
  /\ now = 0
  /\ actors = [n \in Names |-> NoLive]
  /\ nlive = 0
  /\ lname = [l \in Lives |-> "A"]
  /\ hasInit = [l \in Lives |-> FALSE]
  /\ hasHook = [l \in Lives |-> FALSE]
  /\ q = [l \in Lives |-> <<>>]
  /\ busy = [l \in Lives |-> FALSE]
  /\ crashes = [l \in Lives |-> <<>>]
  /\ drain = [l \in Lives |-> [s \in Slots |-> Idle]]
  /\ itask = [l \in Lives |-> NoTask]
  /\ nsent = 0
  /\ accepted = [l \in Lives |-> <<>>]
  /\ delivered = [l \in Lives |-> <<>>]
  /\ crashLog = [l \in Lives |-> <<>>]
  /\ reruns = [l \in Lives |-> <<>>]
  /\ resumes = [l \in Lives |-> 0]
  /\ stopped = [l \in Lives |-> FALSE]
  /\ lastErr = "none"
  /\ unhandled = {}

EffLists == UNION {[1..k -> Effect] : k \in 0..MaxEffLen}

\* issueToken(module, effects, devOnly): { module, effects, issuedAt, devOnly }
issueToken(mod, effs, dev) == [module |-> mod, effects |-> effs, issuedAt |-> 0, devOnly |-> dev]

NoToken == [module |-> "none", effects |-> <<>>, issuedAt |-> 0, devOnly |-> FALSE]

CapsIdle ==
  /\ cap = issueToken("A", <<>>, FALSE)
  /\ call = NoCall
  /\ lowCalls = [e \in Effect |-> 0]
  /\ issued = cap
  /\ minted = NoToken

Init == KernelInit /\ CapsIdle

Next ==
  \/ \E n \in Names, i \in BOOLEAN, h \in BOOLEAN, sync \in BOOLEAN :
       (nlive = 0 \/ actors[n] # NoLive) /\ Spawn(n, i, h, sync)
  \/ \E l \in Lives : Send(l)
  \/ \E n \in Names : Stop(n)
  \/ Tick
  \/ \E l \in Lives, s \in Slots : MsgOk(l, s)
  \/ \E l \in Lives, s \in Slots, o \in {"resume", "restart", "stop", "throw", "undefined"} :
       MsgFail(l, s, o)
  \/ \E l \in Lives, s \in Slots : BackoffDone(l, s)
  \/ \E l \in Lives, s \in Slots : ReinitOk(l, s)
  \/ \E l \in Lives, s \in Slots : ReinitFail(l, s)
  \/ \E l \in Lives : InitOk(l)
  \/ \E l \in Lives, o \in {"resume", "restart", "stop", "throw", "undefined"} : InitFail(l, o)
  \/ \E l \in Lives : InitBackoffDone(l)
  \/ \E l \in Lives : InitReinitOk(l)
  \/ \E l \in Lives : InitReinitFail(l)

Spec == Init /\ [][Next]_vars

\* Every onMessage, onCrash and init invocation settles, every armed timer
\* fires and the clock advances; the host is free to call or not.
HookResults == {"resume", "restart", "stop", "throw", "undefined"}
Fairness ==
  /\ WF_vars(Tick)
  /\ \A l \in Lives, s \in Slots :
       /\ WF_vars(MsgOk(l, s) \/ \E o \in HookResults : MsgFail(l, s, o))
       /\ WF_vars(BackoffDone(l, s))
       /\ WF_vars(ReinitOk(l, s) \/ ReinitFail(l, s))
  /\ \A l \in Lives :
       /\ WF_vars(InitOk(l) \/ \E o \in HookResults : InitFail(l, o))
       /\ WF_vars(InitBackoffDone(l))
       /\ WF_vars(InitReinitOk(l) \/ InitReinitFail(l))

FairSpec == Spec /\ Fairness

\* the facade bound to one token, called by whoever holds it
CapsInit ==
  /\ KernelInit
  /\ \E mod \in Names, effs \in EffLists, dev \in BOOLEAN : cap = issueToken(mod, effs, dev)
  /\ call = NoCall
  /\ lowCalls = [e \in Effect |-> 0]
  /\ issued = cap
  /\ minted = NoToken

CapsNext == \E m \in Methods : FacadeCall(m)

CapsSpec == CapsInit /\ [][CapsNext]_vars

\* one actor whose crashes all take the restart path (no onCrash hook, or a
\* hook answering "restart"), every init re-run entered in the log
RestartResults == {"undefined", "restart"}
BudgetNext ==
  \/ \E i \in BOOLEAN, h \in BOOLEAN : nlive = 0 /\ Spawn("A", i, h, FALSE)
  \/ \E l \in Lives : Send(l)
  \/ Stop("A")
  \/ Tick
  \/ \E l \in Lives, s \in Slots : MsgOk(l, s)
  \/ \E l \in Lives, s \in Slots, o \in RestartResults : MsgFail(l, s, o)
  \/ \E l \in Lives, s \in Slots : BackoffDoneLogged(l, s)
  \/ \E l \in Lives, s \in Slots : ReinitOk(l, s)
  \/ \E l \in Lives : InitOk(l)
  \/ \E l \in Lives, o \in RestartResults : InitFail(l, o)
  \/ \E l \in Lives : InitBackoffDoneLogged(l)
  \/ \E l \in Lives : InitReinitOk(l)

BudgetSpec == Init /\ [][BudgetNext]_vars

\* every onMessage and init invocation settles, every armed timer fires and
\* the clock advances; the host is free to call or not
BudgetFairness ==
  /\ WF_vars(Tick)
  /\ \A l \in Lives, s \in Slots :
       /\ WF_vars(MsgOk(l, s) \/ \E o \in RestartResults : MsgFail(l, s, o))
       /\ WF_vars(BackoffDoneLogged(l, s))
       /\ WF_vars(ReinitOk(l, s))
  /\ \A l \in Lives :
       /\ WF_vars(InitOk(l) \/ \E o \in RestartResults : InitFail(l, o))
       /\ WF_vars(InitBackoffDoneLogged(l))
       /\ WF_vars(InitReinitOk(l))

BudgetFairSpec == BudgetSpec /\ BudgetFairness

\* ---------------------------------------------- what holders of a token can do
\* issueToken stores the caller's effects array itself, and ctx.cap is the
\* token object the facade reads: effects.push(e) through either reference
PushEffect(e) ==
  /\ Len(cap.effects) < MaxEffLen
  /\ cap' = [cap EXCEPT !.effects = Append(@, e)]
  /\ UNCHANGED <<call, lowCalls>>
  /\ UNCHANGED tvars
  /\ UNCHANGED kvars

\* effects.pop() through either reference
PopEffect ==
  /\ cap.effects # <<>>
  /\ cap' = [cap EXCEPT !.effects = SubSeq(@, 1, Len(@) - 1)]
  /\ UNCHANGED <<call, lowCalls>>
  /\ UNCHANGED tvars
  /\ UNCHANGED kvars

\* ctx.cap.module = n
SetModule(n) ==
  /\ cap' = [cap EXCEPT !.module = n]
  /\ UNCHANGED <<call, lowCalls>>
  /\ UNCHANGED tvars
  /\ UNCHANGED kvars

\* actor code: ctx.system.spawn(child, ctx.system.issueToken(n, effs)); the
\* child's context carries a facade bound to the new token
SpawnChild(n, effs) ==
  /\ nlive >= 1
  /\ minted = NoToken
  /\ ~NameTaken(n)
  /\ SpawnKernel(n, FALSE, FALSE, FALSE)
  /\ minted' = issueToken(n, effs, FALSE)
  /\ UNCHANGED <<issued>>
  /\ UNCHANGED cvars

\* the child's code calls a method of its facade
ChildCall(m) ==
  /\ minted # NoToken
  /\ lowCalls[LowImpl(m)] < MaxCalls
  /\ lowCalls' = IF CallOutcome(minted, m, CHOOSE a \in ArgLists(m) : TRUE, "value").lowInvoked
                 THEN [lowCalls EXCEPT ![LowImpl(m)] = @ + 1]
                 ELSE lowCalls
  /\ UNCHANGED <<cap, call>>
  /\ UNCHANGED tvars
  /\ UNCHANGED kvars

\* actor code reads the clock through its context: now: () => Date.now()
CtxNow ==
  /\ call' = [method |-> "ctx.now", err |-> NoError, lowInvoked |-> FALSE,
              args |-> <<>>, lowArgs |-> <<>>, result |-> "value"]
  /\ UNCHANGED <<cap, lowCalls>>
  /\ UNCHANGED tvars
  /\ UNCHANGED kvars

\* low-level invocations so far
RECURSIVE SumCalls(_)
SumCalls(E) == IF E = {} THEN 0
               ELSE LET e == CHOOSE x \in E : TRUE IN lowCalls[e] + SumCalls(E \ {e})

\* one actor "A" spawned by the host with a token, and the code holding its context
CtxInit ==
  /\ KernelInit
  /\ \E effs \in EffLists : Len(effs) < MaxEffLen /\ cap = issueToken("A", effs, FALSE)
  /\ call = NoCall
  /\ lowCalls = [e \in Effect |-> 0]
  /\ issued = cap
  /\ minted = NoToken

CtxNext ==
  \/ nlive = 0 /\ Spawn("A", FALSE, FALSE, FALSE)
  \/ \E m \in Methods :
       /\ nlive >= 1 /\ SumCalls(Effect) < MaxCalls
       /\ FacadeCallWith(m, CHOOSE a \in ArgLists(m) : TRUE, "value")
  \/ \E e \in Effect : PushEffect(e)
  \/ PopEffect
  \/ \E n \in Names : SetModule(n)
  \/ \E effs \in EffLists : Len(effs) < MaxEffLen /\ SpawnChild("B", effs)
  \/ \E m \in Methods : SumCalls(Effect) < MaxCalls /\ ChildCall(m)
  \/ nlive >= 1 /\ CtxNow

CtxSpec == CtxInit /\ [][CtxNext]_vars

\* the host running two actors side by side and re-spawning a stopped name,
\* within one reading of the clock: crashed handlers stay in their backoff
DuoNext ==
  \/ \E n \in Names, i \in BOOLEAN : Spawn(n, i, FALSE, FALSE)
  \/ \E l \in Lives : Send(l)
  \/ \E n \in Names : Stop(n)
  \/ \E l \in Lives, s \in Slots : MsgOk(l, s)
  \/ \E l \in Lives, s \in Slots : MsgFail(l, s, "undefined")
  \/ \E l \in Lives : InitOk(l)
  \/ \E l \in Lives : InitFail(l, "undefined")

DuoSpec == Init /\ [][DuoNext]_vars

\* handle.stop(): () => this.stop(actor.name), on the handle spawn returned for l
HandleStop(l) ==
  /\ HasHandle(l)
  /\ Stop(lname[l])

\* two actors without init whose onCrash hooks answer in every way, and the
\* host re-spawning a stopped name, within one reading of the clock
PairNext ==
  \/ \E n \in Names, h \in BOOLEAN : Spawn(n, FALSE, h, FALSE)
  \/ \E l \in Lives : Send(l)
  \/ \E l \in Lives : HandleStop(l)
  \/ \E l \in Lives, s \in Slots : MsgOk(l, s)
  \/ \E l \in Lives, s \in Slots, o \in HookResults : MsgFail(l, s, o)

PairSpec == Init /\ [][PairNext]_vars

\* ------------------------------------------------------------------ claims
EffectsOf(c) == {c.effects[i] : i \in DOMAIN c.effects}
\* the effect each facade method stands for
MethodEffect ==
  [m \in Methods |-> CASE m = "db.query" -> "Db" [] m = "net.get" -> "Net"
                       [] m = "now.now" -> "Now" [] m = "kms.decrypt" -> "Kms"
                       [] m = "serial.readLine" -> "Serial"]

\* C1: a facade call for an effect e that is not in the token's effects fails
\* with an error naming e and the token's module, and the low-level
\* implementation of e is not invoked: not by that call, nor by any other.
C1_DeniedNeverReachesLowLevel ==
  /\ \A e \in Effect \ EffectsOf(cap) : lowCalls[e] = 0
  /\ (call.method # "none" /\ MethodEffect[call.method] \notin EffectsOf(cap)) =>
       /\ call.err = [kind |-> "EffectNotGranted", effect |-> MethodEffect[call.method],
                      module |-> cap.module]
       /\ ~call.lowInvoked

C1_Witness ==
  /\ call.err.kind = "EffectNotGranted"
  /\ \E e \in Effect : lowCalls[e] > 0

\* C2: the messages onMessage has been invoked with, followed by the messages
\* still queued, are exactly the messages send accepted, in send order.
C2_DeliveredInSendOrder ==
  \A l \in Lives : accepted[l] = delivered[l] \o q[l]

C2_Witness ==
  \E l \in Lives :
    /\ Len(delivered[l]) >= 3
    /\ q[l] # <<>>
    /\ crashLog[l] # <<>>
    /\ resumes[l] > 0

ActiveSlots(l) == {s \in Slots : drain[l][s].pc # "idle"}

\* C3: per LiveActor at most one flush activation exists, so at most one
\* onMessage is in flight, and never while an earlier invocation's crash
\* handling (backoff, init re-run) is still going on; the mailbox is busy
\* exactly while that activation exists.
C3_OneHandlerInFlight ==
  \A l \in Lives :
    /\ Cardinality(ActiveSlots(l)) <= 1
    /\ Cardinality(InFlight(l)) <= 1
    /\ busy[l] <=> ActiveSlots(l) # {}

C3_Witness ==
  \E l \in Lives, s \in Slots :
    /\ drain[l][s].pc = "backoff"
    /\ Len(q[l]) = MailboxMax
    /\ busy[l]

\* C4 (as claimed): once a LiveActor has been stopped, onMessage is not
\* invoked for it again.
C4_NoDeliveryAfterStop ==
  [][\A l \in Lives : stopped[l] => delivered'[l] = delivered[l]]_vars

\* crashes handled with restart for l that lie within the window ending at t
InWindowCount(log, t) == Cardinality({i \in DOMAIN log : t - log[i] <= WindowMs})

\* C5: when onMessage of an actor without onCrash fails, the actor is removed
\* from the registry, with no backoff and no init re-run, if this is more
\* than the MaxRestarts-th crash within the window; otherwise it stays
\* registered and waits BackoffMs before the restart goes on.
C5_StoppedOnCrashAfterBudget ==
  [][\A l \in Lives, s \in Slots :
       (drain[l][s].pc = "onMessage" /\ ~hasHook[l] /\ MsgFail(l, s, "undefined")) =>
          IF InWindowCount(crashLog'[l], now) > MaxRestarts
          THEN /\ actors'[lname[l]] = NoLive
               /\ drain'[l][s].pc \notin {"backoff", "reinit"}
               /\ itask' = itask
          ELSE /\ actors' = actors
               /\ drain'[l][s].pc = "backoff"
               /\ drain'[l][s].wake = now + BackoffMs]_vars

C5_Witness ==
  \E l \in Lives :
    /\ ~hasHook[l] /\ ~hasInit[l]
    /\ Len(delivered[l]) = MaxRestarts + 1
    /\ InWindowCount(crashLog[l], now) = MaxRestarts + 1
    /\ actors[lname[l]] = NoLive
    /\ stopped[l]

\* C6: a mailbox never holds more than MailboxMax messages; a send that finds
\* MailboxMax messages queued fails with mailbox overflow and enqueues nothing.
C6_QueueBounded ==
  /\ [](\A l \in Lives : Len(q[l]) <= MailboxMax)
  /\ [][\A l \in Lives :
          (Send(l) /\ Len(q[l]) >= MailboxMax) =>
             /\ lastErr' = "MailboxOverflow"
             /\ q' = q /\ accepted' = accepted /\ delivered' = delivered]_vars

C6_Witness ==
  /\ lastErr = "MailboxOverflow"
  /\ \E l \in Lives : Len(q[l]) = MailboxMax

\* C7 (as claimed): with MailboxMax messages sent and none finished being
\* handled, the next send fails with mailbox overflow.
C7_OverflowAtCapacityPlusOne ==
  [][\A l \in Lives :
       (Send(l) /\ Finished(l) = 0 /\ Len(accepted[l]) = MailboxMax) =>
          lastErr' = "MailboxOverflow"]_vars

\* C7 (amended): while no handler has finished, a send fails with mailbox
\* overflow exactly when MailboxMax + 1 messages have been accepted: the
\* first is dequeued when its handler starts, so the queue holds MailboxMax.
C7_OverflowAtCapacityPlusTwo ==
  [][\A l \in Lives :
       (Send(l) /\ Finished(l) = 0) =>
          (lastErr' = "MailboxOverflow" <=> Len(accepted[l]) = MailboxMax + 1)]_vars

C7_Witness ==
  /\ lastErr = "MailboxOverflow"
  /\ \E l \in Lives : Finished(l) = 0 /\ Len(accepted[l]) = MailboxMax + 1

\* C8 (as claimed): no error of init or onMessage reaches the host, neither
\* as an exception out of spawn nor as an unhandled rejection.
C8_NoErrorEscapes ==
  /\ "reinit" \notin unhandled
  /\ \A l \in Lives : itask[l].pc # "threw"

\* C9: while dispatch's crash handling waits for the backoff or for the
\* re-run init, sends are accepted up to capacity and only enqueued, and
\* onMessage is invoked again only once BackoffMs have passed since the
\* crash and the re-run init, if the actor has one, has settled.
C9_NoDeliveryDuringRestart ==
  [][\A l \in Lives, s \in Slots :
       /\ (drain[l][s].pc \in {"backoff", "reinit"} /\ Send(l) /\ Len(q[l]) < MailboxMax) =>
             /\ lastErr' = "none"
             /\ q'[l] = Append(q[l], nsent + 1)
             /\ delivered' = delivered
       /\ (drain[l][s].pc = "backoff" /\ delivered'[l] # delivered[l]) =>
             /\ now >= drain[l][s].at + BackoffMs
             /\ ~hasInit[l]
       /\ (drain[l][s].pc = "backoff" /\ hasInit[l] /\ drain'[l][s] # drain[l][s]) =>
             /\ now >= drain[l][s].at + BackoffMs
             /\ drain'[l][s].pc = "reinit"
       /\ (drain[l][s].pc = "reinit" /\ delivered'[l] # delivered[l]) =>
             ReinitOk(l, s)]_vars

C9_Witness ==
  \E l \in Lives, s \in Slots :
    /\ drain[l][s].pc = "reinit"
    /\ now >= drain[l][s].at + BackoffMs
    /\ q[l] # <<>>
    /\ lastErr = "none"

\* C10: a crash handled with resume leaves the registry and the crash history
\* as they are and starts no backoff and no init re-run; the drain goes on
\* with the next queued message at once, or ends with the mailbox idle.
C10_ResumeKeepsActorRunning ==
  [][\A l \in Lives, s \in Slots :
       MsgFail(l, s, "resume") =>
          /\ actors' = actors
          /\ crashes' = crashes
          /\ itask' = itask
          /\ drain'[l][s].pc \in {"idle", "onMessage"}
          /\ IF q[l] # <<>>
             THEN delivered'[l] = Append(delivered[l], Head(q[l])) /\ busy'[l]
             ELSE delivered' = delivered /\ ~busy'[l]]_vars

C10_Witness ==
  \E l \in Lives :
    /\ resumes[l] >= 2
    /\ Len(delivered[l]) = resumes[l] + 1
    /\ actors[lname[l]] = l
    /\ crashes[l] = <<>>

\* C11: a spawn under a registered name fails with the already-exists error
\* and changes nothing: registry, LiveActor records, mailboxes, crash
\* histories and init activity stay as they are.
C11_DuplicateSpawnChangesNothing ==
  [][\A n \in Names :
       (actors[n] # NoLive /\ \E i \in BOOLEAN, h \in BOOLEAN, sync \in BOOLEAN : Spawn(n, i, h, sync)) =>
          /\ lastErr' = "ActorExists"
          /\ UNCHANGED <<now, actors, nlive, lname, hasInit, hasHook, q, busy, crashes, drain,
                         itask, nsent, accepted, delivered, crashLog, reruns, resumes, stopped,
                         unhandled>>]_vars

C11_Witness ==
  /\ lastErr = "ActorExists"
  /\ \E l \in Lives : actors[lname[l]] = l /\ q[l] # <<>> /\ crashes[l] # <<>>

Range(f) == {f[i] : i \in DOMAIN f}
\* a backoff timer of l is armed for a time the bounded clock never shows
BeyondClock(l) == \E s \in Slots : drain[l][s].pc = "backoff" /\ drain[l][s].wake > MaxTime

\* C12 (as claimed): every message send accepted is eventually passed to
\* onMessage unless the actor is stopped, whatever the earlier handlers and
\* init re-runs did.
C12_AcceptedEventuallyDelivered ==
  \A l \in Lives : \A m \in 1..MaxSends :
    (m \in Range(accepted[l])) ~> (m \in Range(delivered[l]) \/ stopped[l] \/ BeyondClock(l))

\* C13 (as claimed): a token's module and effect set stay what issueToken
\* returned, so every authorization decision stays what it was at issuance.
C13_TokenNeverChanges ==
  /\ cap.module = issued.module
  /\ \A e \in Effect : hasEffect(cap, e) <=> hasEffect(issued, e)

\* C14 (as claimed): whatever the code holding the actor's context does, a
\* low-level implementation is invoked only for effects of the token the
\* actor was spawned with.
C14_NoEffectBeyondSpawnToken ==
  \A e \in Effect : lowCalls[e] > 0 => e \in EffectsOf(issued)

\* what a facade call must do apart from the arguments it forwards: fail with
\* the violation exactly when the effect is absent, and otherwise invoke the
\* low-level implementation of that effect once, and no other, and end as it ends
CallContract(m, r) ==
  LET e == MethodEffect[m] IN
    /\ call'.err.kind = "EffectNotGranted" <=> e \notin EffectsOf(cap)
    /\ e \notin EffectsOf(cap) => lowCalls' = lowCalls
    /\ e \in EffectsOf(cap) =>
         /\ lowCalls' = [lowCalls EXCEPT ![e] = @ + 1]
         /\ call'.result = r

\* C15 (as claimed): ... and the low-level implementation receives the
\* caller's arguments.
C15_ForwardsCallerArguments ==
  [][\A m \in Methods : \A args \in ArgLists(m), r \in LowResults :
       FacadeCallWith(m, args, r) =>
          /\ CallContract(m, r)
          /\ MethodEffect[m] \in EffectsOf(cap) => call'.lowArgs = args]_vars

\* C15 (amended): the low-level implementation receives the caller's
\* arguments, except that db.query called without params hands over an empty
\* parameter list in their place.
C15_ForwardsArgumentsWithDefault ==
  [][\A m \in Methods : \A args \in ArgLists(m), r \in LowResults :
       FacadeCallWith(m, args, r) =>
          /\ CallContract(m, r)
          /\ MethodEffect[m] \in EffectsOf(cap) =>
               call'.lowArgs = IF m = "db.query" /\ Len(args) = 1
                               THEN <<args[1], "[]">> ELSE args]_vars

C15_Witness ==
  /\ call.method = "db.query"
  /\ call.lowInvoked
  /\ Len(call.args) = 2
  /\ call.lowArgs = call.args
  /\ call.result = "error"
  /\ lowCalls["Db"] = 2

\* C16 (as claimed): in every state every timestamp in a LiveActor's crash
\* history is at most WindowMs older than the current time.
C16_CrashHistoryAlwaysInWindow ==
  \A l \in Lives : \A i \in DOMAIN crashes[l] : now - crashes[l][i] <= WindowMs

\* C16: whenever handleCrash writes a LiveActor's crash history, every
\* timestamp it leaves there is at most WindowMs older than the current time,
\* and the crash being handled is the newest entry; nothing else writes it.
C16_CrashHistoryInWindowWhenRecorded ==
  [][\A l \in Lives :
       crashes'[l] # crashes[l] =>
          /\ \A i \in DOMAIN crashes'[l] : now' - crashes'[l][i] <= WindowMs
          /\ crashes'[l] # <<>>
          /\ crashes'[l][Len(crashes'[l])] = now'
          /\ crashLog'[l] = Append(crashLog[l], now')]_vars

C16_Witness ==
  \E l \in Lives :
    /\ crashes[l] # <<>>
    /\ Len(crashes[l]) < Len(crashLog[l])
    /\ \A i \in DOMAIN crashes[l] : crashes[l][i] = now
    /\ ~stopped[l]

\* C17: a send rejected with a mailbox overflow changes nothing of any
\* mailbox (queue, busy flag, drain in progress) and accepts and delivers
\* nothing; while it is the host's last call, each delivery takes the head of
\* the queue as it stood, so the messages queued before it arrive in order.
C17_OverflowLeavesMailbox ==
  [][/\ (nsent' # nsent /\ lastErr' = "MailboxOverflow") =>
          /\ q' = q /\ busy' = busy /\ drain' = drain
          /\ accepted' = accepted /\ delivered' = delivered
          /\ \E l \in Lives : Len(q[l]) = MailboxMax
     /\ (nsent' = nsent /\ lastErr = "MailboxOverflow") =>
          \A l \in Lives :
             delivered'[l] # delivered[l] =>
                /\ q[l] # <<>>
                /\ delivered'[l] = Append(delivered[l], q[l][1])
                /\ q'[l] = Tail(q[l])]_vars

C17_Witness ==
  /\ lastErr = "MailboxOverflow"
  /\ \E l \in Lives :
       /\ nsent = MailboxMax + 2
       /\ Len(accepted[l]) = MailboxMax + 1
       /\ delivered[l] = accepted[l]
       /\ q[l] = <<>>
       /\ ~busy[l]

\* C19 (as claimed): once a LiveActor has been stopped, init is not invoked
\* on it again and it does not come back into the registry.
C19_StoppedIsTerminal ==
  [][\A l \in Lives :
       stopped[l] =>
          /\ \A s \in Slots : drain'[l][s].pc = "reinit" => drain[l][s].pc = "reinit"
          /\ itask'[l].pc \in {"init", "reinit"} => itask'[l].pc = itask[l].pc
          /\ \A n \in Names : actors'[n] # l]_vars

\* C18: stop(name) can be called in every state and never fails; it leaves
\* name out of the registry and, for a name that is not registered, changes
\* nothing at all; every other name's entry, every mailbox and crash history,
\* and every onMessage or init invocation in flight stay as they were.
C18_StopRemovesOnlyTheName ==
  [][\A n \in Names :
       /\ ENABLED Stop(n)
       /\ Stop(n) =>
            /\ actors'[n] = NoLive
            /\ lastErr' = "none"
            /\ \A m \in Names \ {n} : actors'[m] = actors[m]
            /\ actors[n] = NoLive => (actors' = actors /\ stopped' = stopped)
            /\ q' = q /\ busy' = busy /\ crashes' = crashes
            /\ drain' = drain /\ itask' = itask /\ delivered' = delivered]_vars

C18_Witness ==
  \E l1, l2 \in Lives :
    /\ l1 # l2 /\ l2 <= nlive
    /\ stopped[l1] /\ actors[lname[l1]] = NoLive
    /\ InFlight(l1) # {} /\ itask[l1].pc = "init"
    /\ ~stopped[l2] /\ actors[lname[l2]] = l2
    /\ InFlight(l2) # {} /\ q[l2] # <<>>
    /\ lastErr = "none"

\* C20: a spawn under a name that is not registered (never used, or stopped)
\* succeeds and registers a LiveActor that did not exist before, with an
\* empty idle mailbox and an empty crash history, and leaves every earlier
\* LiveActor's mailbox and crash history alone; no two LiveActors that have
\* not been removed from the registry carry the same name.
C20_RespawnIsFresh ==
  [][/\ \A n \in Names :
          (actors[n] = NoLive /\ actors'[n] # NoLive) =>
             LET l == actors'[n] IN
               /\ l \notin 1..nlive
               /\ lname'[l] = n
               /\ lastErr' # "ActorExists"
               /\ q'[l] = <<>> /\ crashes'[l] = <<>> /\ ~busy'[l]
               /\ \A s \in Slots : drain'[l][s] = Idle
               /\ \A k \in 1..nlive : q'[k] = q[k] /\ crashes'[k] = crashes[k]
     /\ \A n \in Names :
          (actors[n] = NoLive /\ nlive < MaxLive) => ENABLED Spawn(n, FALSE, FALSE, FALSE)
     /\ \A l1, l2 \in 1..nlive' :
          (~stopped'[l1] /\ ~stopped'[l2] /\ lname'[l1] = lname'[l2]) => l1 = l2]_vars

C20_Witness ==
  \E l1, l2 \in Lives :
    /\ l1 < l2 /\ l2 <= nlive
    /\ lname[l1] = lname[l2]
    /\ stopped[l1] /\ ~stopped[l2] /\ actors[lname[l2]] = l2
    /\ crashes[l1] # <<>> /\ q[l1] # <<>>
    /\ crashes[l2] = <<>> /\ q[l2] = <<>> /\ ~busy[l2]

\* C21: a facade call denied with a capability violation changes nothing of
\* the kernel (registry, mailboxes, crash histories), of the tokens or of the
\* low-level invocation counts; a call made after a denial for an effect that
\* is in the token passes the check and reaches its low-level implementation.
C21_DenialChangesNothing ==
  [][/\ (call' # call /\ call'.err.kind = "EffectNotGranted") =>
          /\ UNCHANGED kvars
          /\ cap' = cap /\ issued' = issued /\ minted' = minted
          /\ lowCalls' = lowCalls
     /\ (/\ call.err.kind = "EffectNotGranted"
         /\ call' # call
         /\ call'.method \in Methods
         /\ MethodEffect[call'.method] \in EffectsOf(cap)) =>
          /\ call'.err = NoError
          /\ call'.lowInvoked
          /\ lowCalls' = [lowCalls EXCEPT ![MethodEffect[call'.method]] = @ + 1]]_vars

C21_Witness ==
  /\ call.err.kind = "EffectNotGranted"
  /\ actors["A"] # NoLive /\ actors["B"] # NoLive
  /\ cap = issued
  /\ \E e \in EffectsOf(cap) : lowCalls[e] > 0

\* C22 (as claimed): code holding an ActorContext obtains a clock reading,
\* through the facade or through the context itself, only if "Now" is in the
\* token.
C22_ClockReadNeedsNow ==
  [][(/\ call' # call
      /\ call'.method \in {"now.now", "ctx.now"}
      /\ call'.result # "none") => hasEffect(cap, "Now")]_vars

\* init re-runs logged for l whose time, or whose crash, lies in [t - WindowMs, t]
RerunsWithin(l, t) ==
  Cardinality({i \in DOMAIN reruns[l] : reruns[l][i].t >= t - WindowMs /\ reruns[l][i].t <= t})
RestartedCrashesWithin(l, t) ==
  Cardinality({i \in DOMAIN reruns[l] : reruns[l][i].at >= t - WindowMs /\ reruns[l][i].at <= t})

\* the supervisor removes an actor only at a crash that is more than the
\* MaxRestarts-th within the window ending at it
StoppedOnlyOverBudget ==
  \A l \in Lives :
    (actors[lname[l]] = l /\ actors'[lname[l]] = NoLive /\ ~Stop(lname[l])) =>
       InWindowCount(crashLog'[l], now) > MaxRestarts

Pending(l) ==
  Cardinality({s \in Slots : drain[l][s].pc = "backoff"})
    + (IF itask[l].pc = "backoff" THEN 1 ELSE 0)
\* this step handles a crash of l with restart, within the budget
RestartDecided(l) ==
  crashLog'[l] # crashLog[l] /\ InWindowCount(crashLog'[l], now) <= MaxRestarts
\* a restart of l is between its crash and the end of its init re-run
Restarting(l) ==
  \/ \E s \in Slots : drain[l][s].pc \in {"backoff", "reinit"}
  \/ itask[l].pc \in {"backoff", "reinit"}

\* a backoff timer of l is armed for a time the bounded clock reaches
TimerArmed(l) ==
  \/ \E s \in Slots : drain[l][s].pc = "backoff" /\ drain[l][s].wake <= MaxTime
  \/ itask[l].pc = "backoff" /\ itask[l].wake <= MaxTime

\* C24: a crash of an actor with init that is handled with restart within
\* budget, the first one included, arms the backoff timer for BackoffMs and
\* leaves the registry alone; init is invoked again for it once (every such
\* crash is either waiting for its timer or has its one re-run in the log),
\* on the same LiveActor, not before BackoffMs have passed since the crash,
\* and without fail (no backoff timer stays armed for ever); until the re-run has ended the actor leaves the registry
\* only through stop, called by the host or by the handling of a further
\* crash.
C24_RestartRerunsInitOnce ==
  /\ [][\A l \in Lives :
          /\ hasInit[l] =>
               Pending(l)' + Len(reruns'[l]) =
                  Pending(l) + Len(reruns[l]) + (IF RestartDecided(l) THEN 1 ELSE 0)
          /\ RestartDecided(l) =>
               /\ actors' = actors
               /\ \/ \E s \in Slots : /\ drain[l][s].pc = "onMessage"
                                      /\ drain'[l][s].pc = "backoff"
                                      /\ drain'[l][s].wake = now + BackoffMs
                  \/ /\ itask[l].pc = "init"
                     /\ itask'[l].pc = "backoff"
                     /\ itask'[l].wake = now + BackoffMs
          /\ reruns'[l] # reruns[l] =>
               /\ Len(reruns'[l]) = Len(reruns[l]) + 1
               /\ reruns'[l][Len(reruns'[l])].t = now
               /\ now >= reruns'[l][Len(reruns'[l])].at + BackoffMs
               /\ \A k \in Lives \ {l} : reruns'[k] = reruns[k]
          /\ (Restarting(l) /\ actors[lname[l]] = l /\ actors'[lname[l]] # l) =>
               \/ Stop(lname[l])
               \/ crashLog'[l] # crashLog[l] /\ ~RestartDecided(l)]_vars
  /\ []<>(\A l \in Lives : ~TimerArmed(l))

C24_Witness ==
  \E l \in Lives, s \in Slots :
    /\ hasHook[l] /\ hasInit[l]
    /\ Len(crashLog[l]) = 1 /\ crashes[l] = crashLog[l]
    /\ Len(reruns[l]) = 1
    /\ reruns[l][1].t = reruns[l][1].at + BackoffMs
    /\ drain[l][s].pc = "reinit"
    /\ actors[lname[l]] = l

\* what stop(name) does to the kernel when the crash handling of l calls it:
\* the registry loses the name, and clock, crash history and restart record
\* stay as they are
StoppedAsByStop(l) ==
  /\ actors' = [actors EXCEPT ![lname[l]] = NoLive]
  /\ crashes' = crashes /\ crashLog' = crashLog /\ reruns' = reruns
  /\ now' = now /\ stopped' = MarkStopped(lname[l])

\* C25: a crash of onMessage or of init to which onCrash answers "stop"
\* removes the actor's name from the registry in that same step, as
\* stop(name) does; the crash handling arms no backoff timer and re-runs no
\* init, and the crash history is not modified.
C25_StopDispositionStopsAtOnce ==
  [][\A l \in Lives :
       /\ \A s \in Slots :
            MsgFail(l, s, "stop") =>
               /\ StoppedAsByStop(l)
               /\ drain'[l][s].pc \in {"idle", "onMessage"}
               /\ itask' = itask
       /\ InitFail(l, "stop") =>
            /\ StoppedAsByStop(l)
            /\ itask'[l].pc = "done"
            /\ drain' = drain /\ q' = q]_vars

C25_Witness ==
  \E l \in Lives :
    /\ hasHook[l] /\ stopped[l] /\ actors[lname[l]] = NoLive
    /\ crashes[l] # <<>> /\ crashes[l] = crashLog[l]
    /\ \A s \in Slots : drain[l][s].pc = "idle"
    /\ itask[l].pc = "done"
    /\ ~TimerArmed(l)
    /\ delivered[l] = accepted[l] /\ Len(delivered[l]) = Len(crashes[l]) + 1

\* C26 (as claimed): a spawn under a name that is not registered registers
\* the actor and returns a handle to its caller, however init ends.
C26_SpawnAlwaysReturnsHandle ==
  [][\A n \in Names :
       (actors[n] = NoLive /\ actors'[n] # NoLive) =>
          /\ lastErr' = "none"
          /\ itask'[actors'[n]].pc \in {"init", "done"}]_vars

C30_OldIncarnationCannotRemoveNew ==
  [][\A old, new \in Lives :
       (/\ old # new /\ new <= nlive
        /\ lname[old] = lname[new]
        /\ stopped[old]
        /\ actors[lname[new]] = new) =>
          /\ HandleStop(old) => actors'[lname[new]] = new
          /\ \A s \in Slots, o \in HookResults :
               MsgFail(old, s, o) => actors'[lname[new]] = new]_vars

\* C28: send raises the overflow error exactly when the queue is at capacity
\* and raises nothing else, also when it finds the mailbox idle and starts the
\* drain itself; a failing onMessage, onCrash, init or init re-run raises
\* nothing to the host: what the last host call raised stays as it was.
C28_SendRaisesOnlyOverflow ==
  [][\A l \in Lives :
       /\ Send(l) =>
            /\ lastErr' \in {"none", "MailboxOverflow"}
            /\ lastErr' = "MailboxOverflow" <=> Len(q[l]) >= MailboxMax
            /\ (~busy[l] /\ Len(q[l]) < MailboxMax) =>
                  /\ busy'[l]
                  /\ delivered'[l] # delivered[l]
                  /\ unhandled' = unhandled
       /\ \A s \in Slots :
            drain[l][s].pc = "onMessage" =>
               \A o \in HookOutcomes(l) : MsgFail(l, s, o) => lastErr' = lastErr /\ nsent' = nsent
       /\ \A s \in Slots : ReinitFail(l, s) => lastErr' = lastErr /\ nsent' = nsent
       /\ itask[l].pc = "init" =>
            \A o \in HookOutcomes(l) : InitFail(l, o) => lastErr' = lastErr /\ nsent' = nsent
       /\ InitReinitFail(l) => lastErr' = lastErr /\ nsent' = nsent]_vars

C28_Witness ==
  /\ lastErr = "none"
  /\ unhandled = {"onCrash", "reinit"}
  /\ \E l \in Lives :
       /\ hasHook[l] /\ crashes[l] # <<>>
       /\ Len(delivered[l]) = nsent /\ nsent >= 3
       /\ busy[l]

\* actor callbacks of l that are running: onMessage, the init spawn started,
\* init re-runs
CallbacksInFlight(l) ==
  Cardinality({s \in Slots : drain[l][s].pc \in {"onMessage", "reinit"}})
    + (IF itask[l].pc \in {"init", "reinit"} THEN 1 ELSE 0)
\* crash handlings of l between their backoff and the end of their init re-run
CrashHandlings(l) ==
  Cardinality({s \in Slots : drain[l][s].pc \in {"backoff", "reinit"}})
    + (IF itask[l].pc \in {"backoff", "reinit"} THEN 1 ELSE 0)

\* C29 (as claimed): per LiveActor at most one callback among init, init
\* re-run and onMessage is running, and at most one crash handling is in
\* progress.
C29_OneCallbackInFlight ==
  \A l \in Lives : CallbacksInFlight(l) <= 1 /\ CrashHandlings(l) <= 1

\* C31 (as claimed): whenever the kernel is suspended, a mailbox that holds
\* queued messages has a drain in progress.
C31_QueuedImpliesDraining ==
  \A l \in Lives : q[l] # <<>> => busy[l]

\* C32 (as claimed): when the init re-run after a failed init fails again,
\* the supervisor goes on handling the failure: the actor is removed from the
\* registry or a further restart is under way; it is not left registered
\* with its crash handling over.
C32_FailingInitEndsStopped ==
  [][\A l \in Lives :
       (itask[l].pc = "reinit" /\ InitReinitFail(l)) =>
          (actors'[lname[l]] # l \/ itask'[l].pc = "backoff")]_vars

\* C33 (as claimed): a LiveActor's crash history never holds more than
\* MaxRestarts + 1 timestamps.
C33_CrashHistoryBounded ==
  \A l \in Lives : Len(crashes[l]) <= MaxRestarts + 1

\* C34: no message is passed to onMessage twice, by the same LiveActor or by
\* two, and only messages send accepted are: the messages handed to onMessage
\* so far, failed handlers of every disposition included, are pairwise
\* different, so no crash handling has put a message back for delivery.
C34_DeliveredAtMostOnce ==
  \A l \in Lives :
    /\ \A i, j \in DOMAIN delivered[l] : i # j => delivered[l][i] # delivered[l][j]
    /\ \A i \in DOMAIN delivered[l] :
         \E j \in DOMAIN accepted[l] : accepted[l][j] = delivered[l][i]
    /\ \A k \in Lives \ {l} : \A i \in DOMAIN delivered[l], j \in DOMAIN delivered[k] :
         delivered[l][i] # delivered[k][j]

C34_Witness ==
  \E l \in Lives :
    /\ Len(delivered[l]) = MaxSends
    /\ resumes[l] > 0
    /\ reruns[l] = <<>> /\ Len(crashLog[l]) >= 2
    /\ stopped[l]

\* C35: a crash of onMessage or init to which onCrash answers "resume" or
\* "stop" leaves the crash history as it is; the crash history is written
\* only by a crash handled with restart, which adds its own timestamp; and a
\* crash takes the actor over the budget only if the crashes handled with
\* restart, that one included, number more than MaxRestarts within WindowMs.
C35_OnlyRestartsConsumeBudget ==
  [][\A l \in Lives :
       /\ \A s \in Slots :
            drain[l][s].pc = "onMessage" =>
               \A o \in {"resume", "stop"} :
                  MsgFail(l, s, o) => crashes' = crashes /\ crashLog' = crashLog
       /\ itask[l].pc = "init" =>
            \A o \in {"resume", "stop"} :
               InitFail(l, o) => crashes' = crashes /\ crashLog' = crashLog
       /\ crashes'[l] # crashes[l] =>
            /\ crashLog'[l] = Append(crashLog[l], now)
            /\ resumes' = resumes
       /\ (crashLog'[l] # crashLog[l] /\ actors[lname[l]] = l /\ actors'[lname[l]] = NoLive) =>
            InWindowCount(crashLog'[l], now) > MaxRestarts]_vars

C35_Witness ==
  \E l \in Lives :
    /\ resumes[l] >= 2
    /\ Len(crashLog[l]) >= 2
    /\ resumes[l] + Len(crashLog[l]) > MaxRestarts
    /\ InWindowCount(crashLog[l], now) = Len(crashLog[l])
    /\ ~stopped[l] /\ actors[lname[l]] = l

\* the tokens that grant the same effects as c: any order and duplication of
\* the effects list, any module, issuedAt and devOnly
SameEffectsTokens(c) ==
  LET lists == {effs \in EffLists : {effs[i] : i \in DOMAIN effs} = EffectsOf(c)} IN
    [module : Names, effects : lists, issuedAt : {0, MaxTime}, devOnly : BOOLEAN]

\* C36: whether a facade method is allowed depends only on which effects the
\* token's list contains: a facade bound to any token with the same set of
\* effects (whatever their order or duplication, and whatever module,
\* issuedAt and devOnly) allows exactly the methods the facade bound to cap
\* allows, reaches the low-level implementation in exactly the same calls,
\* and would have decided the call that was made the same way.
C36_DecisionDependsOnEffectsOnly ==
  \A t \in SameEffectsTokens(cap) :
    /\ \A m \in Methods :
         /\ assertEffect(t, AssertedEffect(m)).kind = assertEffect(cap, AssertedEffect(m)).kind
         /\ \A args \in ArgLists(m), r \in LowResults :
              /\ CallOutcome(t, m, args, r).lowInvoked = CallOutcome(cap, m, args, r).lowInvoked
              /\ CallOutcome(t, m, args, r).result = CallOutcome(cap, m, args, r).result
    /\ call.method # "none" =>
         /\ CallOutcome(t, call.method, call.args, call.result).lowInvoked = call.lowInvoked
         /\ CallOutcome(t, call.method, call.args, call.result).err.kind = call.err.kind

C36_Witness ==
  /\ Len(cap.effects) = 2 /\ cap.effects[1] # cap.effects[2]
  /\ cap.devOnly /\ cap.module = "B"
  /\ call.lowInvoked /\ MethodEffect[call.method] = cap.effects[2]
  /\ \E e \in Effect \ EffectsOf(cap) : TRUE
  /\ Cardinality(SameEffectsTokens(cap)) > 1

\* C37: the restart window is inclusive at its boundary. When a crash handled
\* with restart is recorded at time now, every earlier crash recorded exactly
\* WindowMs before now is kept and counts toward the budget, every one
\* recorded WindowMs + 1 or more before now is dropped, and the actor is
\* stopped by that crash exactly if the kept crashes and the current one
\* number more than MaxRestarts.
C37_WindowInclusiveAtBoundary ==
  [][\A l \in Lives :
       crashLog'[l] # crashLog[l] =>
          LET old == crashes[l]
              kept == {i \in DOMAIN old : now - old[i] <= WindowMs}
              atEdge == {i \in DOMAIN old : now - old[i] = WindowMs}
              new == crashes'[l]
          IN /\ atEdge \subseteq kept
             /\ Len(new) = Cardinality(kept) + 1
             /\ new[Len(new)] = now
             /\ \A ts \in 0..MaxTime :
                  Cardinality({j \in 1..(Len(new) - 1) : new[j] = ts}) =
                    IF now - ts <= WindowMs
                    THEN Cardinality({i \in DOMAIN old : old[i] = ts})
                    ELSE 0
             /\ actors[lname[l]] = l =>
                  (actors'[lname[l]] = NoLive <=> Cardinality(kept) + 1 > MaxRestarts)]_vars

C37_Witness ==
  \E l \in Lives :
    /\ crashes[l] # <<>>
    /\ crashes[l][1] = crashes[l][Len(crashes[l])] - WindowMs
    /\ crashLog[l][1] = crashes[l][Len(crashes[l])] - WindowMs - 1
    /\ Len(crashes[l]) = MaxRestarts + 1
    /\ Len(crashLog[l]) > Len(crashes[l])
    /\ stopped[l]
====
